---- MODULE Spec2Model ----
(***************************************************************************)
(* A model of evalSpice.py: the netlist parser (parsing, mapping_nodes),   *)
(* the equation builder (matrix_formation) and the solver / result mapper  *)
(* (evalSpice).                                                            *)
(*                                                                         *)
(* A text line is modelled by the list of its whitespace-separated tokens  *)
(* (what line.split() returns); line.strip() == m holds exactly when that  *)
(* list is <<m>>.  A token is the sequence of its characters.  A Python    *)
(* float is modelled by an exact rational <<numerator, denominator>>.      *)
(***************************************************************************)
EXTENDS Integers, Sequences, FiniteSets, TLC

VARIABLES
    lines,                  \* the file: f.readlines(), each line as its tokens
    pc,                     \* position of the evaluation; it stays where an
                            \* exception was raised
    err,                    \* the exception raised, NoErr while there is none
    ln,                     \* 1-based position of the element loop in lines
    Junk,                   \* flag: outside the valid circuit
    node_mapping,           \* node name -> index
    node_counter,           \* next index to assign
    Resistors,
    Voltage_sources,
    Current_sources,
    resistor_names,
    voltage_source_names,
    current_source_names,
    node_count,             \* the node count parsing returned
    Matrix,
    Matrix_right,
    k,                      \* 1-based position of the running stamping loop
    solution,
    voltages,
    currents

vars == <<lines, pc, err, ln, Junk, node_mapping, node_counter, Resistors,
          Voltage_sources, Current_sources, resistor_names,
          voltage_source_names, current_source_names, node_count, Matrix,
          Matrix_right, k, solution, voltages, currents>>

parserVars == <<Junk, node_mapping, node_counter, Resistors, Voltage_sources,
                Current_sources, resistor_names, voltage_source_names,
                current_source_names>>

(***************************************************************************)
(* Bounds of the model.                                                    *)
(***************************************************************************)
MaxLines == 4

(***************************************************************************)
(* Characters, tokens and the text conversions.                            *)
(***************************************************************************)
Digits == <<"0", "1", "2", "3", "4", "5", "6", "7", "8", "9">>

LowerCase == <<"a", "b", "c", "d", "e", "f", "g", "h", "i", "j", "k", "l", "m",
               "n", "o", "p", "q", "r", "s", "t", "u", "v", "w", "x", "y", "z">>

UpperCase == <<"A", "B", "C", "D", "E", "F", "G", "H", "I", "J", "K", "L", "M",
               "N", "O", "P", "Q", "R", "S", "T", "U", "V", "W", "X", "Y", "Z">>

\* str.upper() of one character
Upper(c) ==
    IF \E i \in 1..26 : LowerCase[i] = c
    THEN UpperCase[CHOOSE i \in 1..26 : LowerCase[i] = c]
    ELSE c

IsDigit(c) == \E i \in 1..10 : Digits[i] = c

DigitValue(c) == (CHOOSE i \in 1..10 : Digits[i] = c) - 1

\* the value of a string of decimal digits
RECURSIVE DecimalValue(_)
DecimalValue(s) ==
    IF s = <<>> THEN 0
    ELSE 10 * DecimalValue(SubSeq(s, 1, Len(s) - 1)) + DigitValue(s[Len(s)])

\* str(n) of an integer n >= 0
RECURSIVE Str(_)
Str(n) ==
    IF n < 10 THEN <<Digits[n + 1]>>
    ELSE Append(Str(n \div 10), Digits[(n % 10) + 1])

\* int(s) of a string str() produced
IntOf(s) == DecimalValue(s)

DotCircuit == <<".", "c", "i", "r", "c", "u", "i", "t">>
DotEnd     == <<".", "e", "n", "d">>
GND        == <<"G", "N", "D">>

(***************************************************************************)
(* Floats, as exact rationals in lowest terms with a positive denominator. *)
(***************************************************************************)
Abs(x) == IF x < 0 THEN -x ELSE x

RECURSIVE GCD(_, _)
GCD(a, b) == IF b = 0 THEN a ELSE GCD(b, a % b)

Rat(n, d) ==
    LET g == GCD(Abs(n), Abs(d))
        s == IF d < 0 THEN -1 ELSE 1
    IN  <<(s * n) \div g, (s * d) \div g>>

Zero == <<0, 1>>
One  == <<1, 1>>

RAdd(a, b) == Rat(a[1] * b[2] + b[1] * a[2], a[2] * b[2])
RNeg(a)    == <<-a[1], a[2]>>
RSub(a, b) == RAdd(a, RNeg(b))
RMul(a, b) == Rat(a[1] * b[1], a[2] * b[2])
RDiv(a, b) == Rat(a[1] * b[2], a[2] * b[1])
RAbsLess(a, b) == Abs(a[1]) * b[2] < Abs(b[1]) * a[2]

\* float(s): every value text of the model is either a string of decimal
\* digits or a word float() rejects with ValueError
IsFloatText(s) == s # <<>> /\ \A i \in 1..Len(s) : IsDigit(s[i])
Float(s) == <<DecimalValue(s), 1>>

\* float(b) of a bool
FloatOfBool(b) == IF b THEN One ELSE Zero

\* s == n for a str s and an int n: objects of different types never compare equal
StrEqInt(s, n) == FALSE

(***************************************************************************)
(* Exceptions.                                                             *)
(***************************************************************************)
Exc(t, m) == [type |-> t, msg |-> m]

NoErr == Exc("none", "")

MalformedFile  == Exc("ValueError", "Malformed circuit file")
DuplicateR     == Exc("ValueError", "Duplicate resistor name found.")
DuplicateV     == Exc("ValueError", "Duplicate voltage source name found.")
DuplicateI     == Exc("ValueError", "Duplicate current source name found.")
InsufficientR  == Exc("ValueError", "Insufficient data to access resistor value.")
InsufficientV  == Exc("ValueError", "Insufficient data to access voltage source value.")
InsufficientI  == Exc("ValueError", "Insufficient data to access current source value.")
Unsupported    == Exc("ValueError", "Only V, I, R elements are permitted")
MalformedValue == Exc("TypeError", "Malformed circuit file")
ZeroDivision   == Exc("ZeroDivisionError", "")
IndexErr       == Exc("IndexError", "")
NoSolution     == Exc("ValueError", "Circuit error: no solution")

(***************************************************************************)
(* The netlist parser.                                                     *)
(***************************************************************************)
\* a faulty mapping_nodes: the counter advances for a known name too
mapping_nodes_counting(node_name, mapping, counter) ==
    LET isNew == node_name \notin DOMAIN mapping
        m2    == IF isNew THEN mapping @@ (node_name :> counter) ELSE mapping
    IN  [idx |-> m2[node_name], mapping |-> m2, counter |-> counter + 1]

\* mapping_nodes: the index of node_name, the mapping and the counter after it
mapping_nodes(node_name, mapping, counter) ==
    LET isNew == node_name \notin DOMAIN mapping
        m2    == IF isNew THEN mapping @@ (node_name :> counter) ELSE mapping
        c2    == IF isNew THEN counter + 1 ELSE counter
    IN  [idx |-> m2[node_name], mapping |-> m2, counter |-> c2]

\* the dictionary an element line becomes
Component(words, n1, n2, value) ==
    [name |-> words[1], n1 |-> Str(n1), n2 |-> Str(n2), value |-> value]

MinWordsR == 4
MinWordsV == 5
MinWordsI == 5

\* the resistor branch: the exception raised, the name set and the list after it
ResistorLine(words, n1, n2, names, list) ==
    IF words[1] \in names
    THEN [err |-> DuplicateR, names |-> names, list |-> list]
    ELSE IF Len(words) < MinWordsR
    THEN [err |-> InsufficientR, names |-> names \cup {words[1]}, list |-> list]
    ELSE [err |-> NoErr, names |-> names \cup {words[1]},
          list |-> Append(list, Component(words, n1, n2, words[4]))]

\* the voltage source branch
VoltageLine(words, n1, n2, names, list) ==
    IF words[1] \in names
    THEN [err |-> DuplicateV, names |-> names, list |-> list]
    ELSE IF Len(words) < MinWordsV
    THEN [err |-> InsufficientV, names |-> names \cup {words[1]}, list |-> list]
    ELSE [err |-> NoErr, names |-> names \cup {words[1]},
          list |-> Append(list, Component(words, n1, n2, words[5]))]

\* the current source branch
CurrentLine(words, n1, n2, names, list) ==
    IF words[1] \in names
    THEN [err |-> DuplicateI, names |-> names, list |-> list]
    ELSE IF Len(words) < MinWordsI
    THEN [err |-> InsufficientI, names |-> names \cup {words[1]}, list |-> list]
    ELSE [err |-> NoErr, names |-> names \cup {words[1]},
          list |-> Append(list, Component(words, n1, n2, words[5]))]

\* words[0][0].upper()
ElementType(words) == Upper(words[1][1])

\* line.strip() == marker
IsMarker(line, marker) == line = <<marker>>

\* the count the validity scan makes: the lines that are not the marker
CountOthers(file, marker) ==
    Cardinality({i \in 1..Len(file) : ~IsMarker(file[i], marker)})

\* a faulty validity scan: the '.end' marker is not looked for
ScanErrorCircuitOnly(file) ==
    IF CountOthers(file, DotCircuit) = Len(file) THEN MalformedFile ELSE NoErr

\* the exception of the validity scan
ScanError(file) ==
    IF CountOthers(file, DotCircuit) = Len(file) THEN MalformedFile
    ELSE IF CountOthers(file, DotEnd) = Len(file) THEN MalformedFile
    ELSE NoErr

\* one element line (not Junk, len(words) > 0): the parser's state after it
ElementLine(words) ==
    LET cur == [err |-> NoErr, mapping |-> node_mapping, counter |-> node_counter,
                R |-> Resistors, V |-> Voltage_sources, I |-> Current_sources,
                rn |-> resistor_names, vn |-> voltage_source_names,
                cn |-> current_source_names]
    IN  IF Len(words) < 3
        THEN [cur EXCEPT !.err = IndexErr]        \* words[1], words[2]
        ELSE LET m1  == mapping_nodes(words[2], node_mapping, node_counter)
                 m2  == mapping_nodes(words[3], m1.mapping, m1.counter)
                 n1  == m1.idx
                 n2  == m2.idx
                 st  == [cur EXCEPT !.mapping = m2.mapping, !.counter = m2.counter]
                 typ == ElementType(words)
             IN  IF typ = "R"
                 THEN LET r == ResistorLine(words, n1, n2, resistor_names, Resistors)
                      IN  [st EXCEPT !.err = r.err, !.rn = r.names, !.R = r.list]
                 ELSE IF typ = "V"
                 THEN LET r == VoltageLine(words, n1, n2, voltage_source_names,
                                           Voltage_sources)
                      IN  [st EXCEPT !.err = r.err, !.vn = r.names, !.V = r.list]
                 ELSE IF typ = "I"
                 THEN LET r == CurrentLine(words, n1, n2, current_source_names,
                                           Current_sources)
                      IN  [st EXCEPT !.err = r.err, !.cn = r.names, !.I = r.list]
                 ELSE [st EXCEPT !.err = Unsupported]

(***************************************************************************)
(* The equation builder.  Matrix is indexed from 0 as in the code, and a   *)
(* negative index counts from the end as numpy's does.                     *)
(***************************************************************************)
\* np.zeros((n, n)) and np.zeros((n, 1))
Zeros2(n) == [i \in 0..(n - 1) |-> [j \in 0..(n - 1) |-> Zero]]
Zeros1(n) == [i \in 0..(n - 1) |-> [j \in 0..0 |-> Zero]]

MatDim(M) == Cardinality(DOMAIN M)

\* the position a numpy index denotes along an axis of length n
PyIndex(i, n) == IF i < 0 THEN i + n ELSE i
InRange(i, n) == PyIndex(i, n) \in 0..(n - 1)

\* Matrix[a][b] += y and Matrix[a][b] = y
MatAdd(M, a, b, y) ==
    [M EXCEPT ![PyIndex(a, MatDim(M))][PyIndex(b, MatDim(M))] = RAdd(@, y)]
MatSet(M, a, b, y) ==
    [M EXCEPT ![PyIndex(a, MatDim(M))][PyIndex(b, MatDim(M))] = y]

\* the test that guards the conductance: float(Resistor["value"]==0)
ZeroGuard(value) == FloatOfBool(StrEqInt(value, 0)) # Zero

\* the exception 1 / float(value) ends with under the bare except
ConductanceError(value) ==
    IF ~IsFloatText(value) THEN MalformedValue          \* float() raises
    ELSE IF Float(value) = Zero THEN MalformedValue     \* 1 / 0.0 raises
    ELSE NoErr

\* the matrix after the two diagonal and the two off-diagonal additions
ResistorEntries(M, n1, n2, Y) ==
    IF n1 # n2
    THEN LET M1 == IF n1 # 0 THEN MatAdd(M, n1 - 1, n1 - 1, Y) ELSE M
             M2 == IF n2 # 0 THEN MatAdd(M1, n2 - 1, n2 - 1, Y) ELSE M1
         IN  IF n1 # 0 /\ n2 # 0
             THEN MatAdd(MatAdd(M2, n1 - 1, n2 - 1, RNeg(Y)), n2 - 1, n1 - 1, RNeg(Y))
             ELSE M2
    ELSE MatAdd(M, n1 - 1, n1 - 1, Y)

\* one iteration of the resistor loop: the exception and the matrix after it
ResistorStamp(M, Resistor) ==
    LET n1 == IntOf(Resistor.n1)
        n2 == IntOf(Resistor.n2)
    IN  IF ZeroGuard(Resistor.value) THEN [err |-> ZeroDivision, M |-> M]
        ELSE IF ConductanceError(Resistor.value) # NoErr
        THEN [err |-> ConductanceError(Resistor.value), M |-> M]
        ELSE IF n1 = n2 /\ ~InRange(n1 - 1, MatDim(M))
        THEN [err |-> IndexErr, M |-> M]
        ELSE [err |-> NoErr,
              M |-> ResistorEntries(M, n1, n2, RDiv(One, Float(Resistor.value)))]

\* one iteration of the current source loop
CurrentStamp(b, Current_source) ==
    LET n1 == IntOf(Current_source.n1)
        n2 == IntOf(Current_source.n2)
    IN  IF ~IsFloatText(Current_source.value) THEN [err |-> MalformedValue, b |-> b]
        ELSE LET I  == Float(Current_source.value)
                 b1 == IF n1 # 0 THEN [b EXCEPT ![n1 - 1][0] = RSub(@, I)] ELSE b
                 b2 == IF n2 # 0 THEN [b1 EXCEPT ![n2 - 1][0] = RAdd(@, I)] ELSE b1
             IN  [err |-> NoErr, b |-> b2]

\* faulty voltage source entries: the signs of the two terminals exchanged
VoltageEntriesSwapped(M, n1, n2, row) ==
    LET M1 == IF n1 # 0
              THEN MatSet(MatSet(M, row, n1 - 1, RNeg(One)), n1 - 1, row, RNeg(One))
              ELSE M
    IN  IF n2 # 0
        THEN MatSet(MatSet(M1, row, n2 - 1, One), n2 - 1, row, One)
        ELSE M1

\* the coefficient entries of the i-th voltage source (i from 0)
VoltageEntries(M, n1, n2, row) ==
    LET M1 == IF n1 # 0
              THEN MatSet(MatSet(M, row, n1 - 1, One), n1 - 1, row, One)
              ELSE M
    IN  IF n2 # 0
        THEN MatSet(MatSet(M1, row, n2 - 1, RNeg(One)), n2 - 1, row, RNeg(One))
        ELSE M1

\* one iteration of the voltage source loop
VoltageStamp(M, b, total_nodes, i, Voltage_source) ==
    LET n1 == IntOf(Voltage_source.n1)
        n2 == IntOf(Voltage_source.n2)
    IN  IF ~IsFloatText(Voltage_source.value)
        THEN [err |-> MalformedValue, M |-> M, b |-> b]
        ELSE [err |-> NoErr,
              M |-> VoltageEntries(M, n1, n2, total_nodes + i),
              b |-> [b EXCEPT ![total_nodes + i][0] = Float(Voltage_source.value)]]

\* the loop of matrix_formation that runs next, from loop p on: a loop over
\* an empty list has no iteration
LoopFrom(p) ==
    IF p = "resistors" /\ Resistors # <<>> THEN "resistors"
    ELSE IF p \in {"resistors", "currents"} /\ Current_sources # <<>> THEN "currents"
    ELSE IF p \in {"resistors", "currents", "voltages"} /\ Voltage_sources # <<>>
    THEN "voltages"
    ELSE "solve"

(***************************************************************************)
(* The solver: np.linalg.solve, LU elimination with row pivoting, here in  *)
(* exact arithmetic.  A column without a non-zero pivot is LinAlgError.    *)
(***************************************************************************)
RECURSIVE Eliminate(_, _, _)
Eliminate(A, c, n) ==
    IF c = n THEN [singular |-> FALSE, A |-> A]
    ELSE LET cand == {p \in c..(n - 1) : A[p][c] # Zero}
         IN  IF cand = {} THEN [singular |-> TRUE, A |-> A]
             ELSE LET p == CHOOSE p \in cand :
                               \A q \in cand : ~RAbsLess(A[p][c], A[q][c])
                      S == [A EXCEPT ![c] = A[p], ![p] = A[c]]
                      B == [i \in 0..(n - 1) |->
                              IF i = c THEN S[c]
                              ELSE [j \in 0..n |->
                                      RSub(S[i][j],
                                           RMul(RDiv(S[i][c], S[c][c]), S[c][j]))]]
                  IN  Eliminate(B, c + 1, n)

\* the solution of M x = b, or singular; an empty system has the empty solution
LinSolve(M, b) ==
    LET n == MatDim(M)
        A == [i \in 0..(n - 1) |->
                [j \in 0..n |-> IF j < n THEN M[i][j] ELSE b[i][0]]]
        E == Eliminate(A, 0, n)
    IN  IF E.singular THEN [singular |-> TRUE, x |-> <<>>]
        ELSE [singular |-> FALSE,
              x |-> [i \in 0..(n - 1) |->
                       [j \in 0..0 |-> RDiv(E.A[i][n], E.A[i][i])]]]

(***************************************************************************)
(* The result mapper.                                                      *)
(***************************************************************************)
\* len(solution)
SolLen(x) == Cardinality(DOMAIN x)

\* a faulty voltage map: the range guard written i < len(solution)
NodeVoltagesStrict(mapping, x) ==
    [node \in {n \in DOMAIN mapping : n = GND \/ mapping[n] < SolLen(x)} |->
        IF node = GND THEN Zero ELSE x[mapping[node] - 1][0]]

\* the voltage dictionary: ground is 0, a node of index i is x[i - 1] when
\* i <= len(solution)
NodeVoltages(mapping, x) ==
    [node \in {n \in DOMAIN mapping : n = GND \/ mapping[n] <= SolLen(x)} |->
        IF node = GND THEN Zero ELSE x[mapping[node] - 1][0]]

\* the positions (from 0) of the sources whose index passes the range guard
GuardedSources(sources, count, x) ==
    {idx \in 0..(Len(sources) - 1) : count + idx - 1 < SolLen(x)}

\* a faulty current map: current_idx computed as node_count + idx
SourceCurrentsShifted(sources, count, x) ==
    LET kept == {idx \in 0..(Len(sources) - 1) : count + idx < SolLen(x)}
    IN  [name \in {sources[idx + 1].name : idx \in kept} |->
            LET last == CHOOSE idx \in kept :
                            /\ sources[idx + 1].name = name
                            /\ \A j \in kept : sources[j + 1].name = name => j <= idx
            IN  x[count + last][0]]

\* the current dictionary: the source at position idx has x[node_count + idx - 1];
\* a later assignment to the same key replaces the earlier one
SourceCurrents(sources, count, x) ==
    LET kept == GuardedSources(sources, count, x)
    IN  [name \in {sources[idx + 1].name : idx \in kept} |->
            LET last == CHOOSE idx \in kept :
                            /\ sources[idx + 1].name = name
                            /\ \A j \in kept : sources[j + 1].name = name => j <= idx
            IN  x[count + last - 1][0]]

(***************************************************************************)
(* The input files of the model: every file of at most MaxLines lines      *)
(* drawn from a pool of lines.  A value text of a pool is a string of      *)
(* decimal digits or a word that float() rejects.                          *)
(***************************************************************************)
tR0 == <<"R", "0">>
tR1 == <<"R", "1">>
tR2 == <<"R", "2">>
tR4 == <<"R", "4">>
tRx == <<"R", "x">>
tr1 == <<"r", "1">>
tV1 == <<"V", "1">>
tV2 == <<"V", "2">>
tI1 == <<"I", "1">>
ti1 == <<"i", "1">>
tC1 == <<"C", "1">>
t0  == <<"0">>
t1  == <<"1">>
t2  == <<"2">>
t5  == <<"5">>
t10 == <<"1", "0">>
tdc == <<"d", "c">>
tac == <<"a", "c">>
tabc == <<"a", "b", "c">>

\* lines that exercise the parser
ParseLines ==
    { <<DotCircuit>>,
      <<DotEnd>>,
      <<>>,                                 \* a blank line
      <<tR1, t1, GND, t5>>,                 \* R1 1 GND 5
      <<tR1, t2, t1>>,                      \* R1 2 1
      <<tR1>>,                              \* R1
      <<tr1, t2, GND>>,                     \* r1 2 GND
      <<tV1, t1, t0, t10>>,                 \* V1 1 0 10
      <<tV1, t2>>,                          \* V1 2
      <<tV2, t2, GND, tdc, t10>>,           \* V2 2 GND dc 10
      <<ti1, GND, t2, tdc, t1>>,            \* i1 GND 2 dc 1
      <<tI1, t2, GND, tac>>,                \* I1 2 GND ac
      <<tC1, t1, t2, t5>> }                 \* C1 1 2 5

\* lines that exercise the equation builder and the solver
EvalLines ==
    { <<DotCircuit>>,
      <<DotEnd>>,
      <<tV1, t1, GND, tdc, t10>>,           \* V1 1 GND dc 10
      <<tR1, t1, GND, t5>>,                 \* R1 1 GND 5
      <<tV1, t1, t0, t10>>,                 \* V1 1 0 10
      <<tR1, t1, t0, t5>>,                  \* R1 1 0 5
      <<tR2, GND, GND, t2>>,                \* R2 GND GND 2
      <<tR4, t2, t2, t1>>,                  \* R4 2 2 1
      <<tR0, t2, GND, t0>>,                 \* R0 2 GND 0
      <<tRx, t1, GND, tabc>>,               \* Rx 1 GND abc
      <<tV2, t2, t1, tdc, t5>>,             \* V2 2 1 dc 5
      <<tI1, GND, t2, tdc, t1>> }           \* I1 GND 2 dc 1

Files(pool) == UNION {[1..n -> pool] : n \in 0..MaxLines}

\* the state parsing starts in
Start ==
    /\ pc = "scan"
    /\ err = NoErr
    /\ ln = 1
    /\ Junk = TRUE
    /\ node_mapping = (GND :> 0)
    /\ node_counter = 1
    /\ Resistors = <<>>
    /\ Voltage_sources = <<>>
    /\ Current_sources = <<>>
    /\ resistor_names = {}
    /\ voltage_source_names = {}
    /\ current_source_names = {}
    /\ node_count = 0
    /\ Matrix = <<>>
    /\ Matrix_right = <<>>
    /\ k = 1
    /\ solution = <<>>
    /\ voltages = <<>>
    /\ currents = <<>>

Init == lines \in Files(ParseLines) /\ Start

InitEval == lines \in Files(EvalLines) /\ Start

builderVars == <<node_count, Matrix, Matrix_right, k>>
resultVars  == <<solution, voltages, currents>>

\* the validity scan: a '.circuit' and an '.end' are somewhere in the file
CheckMarkers ==
    /\ pc = "scan"
    /\ err = NoErr
    /\ err' = ScanError(lines)
    /\ pc' = IF ScanError(lines) = NoErr THEN "parse" ELSE "scan"
    /\ UNCHANGED <<lines, ln, parserVars, builderVars, resultVars>>

\* one iteration of the loop over the lines
ParseLine ==
    /\ pc = "parse"
    /\ err = NoErr
    /\ ln <= Len(lines)
    /\ LET line == lines[ln]
       IN  IF IsMarker(line, DotCircuit)
           THEN /\ Junk' = FALSE
                /\ ln' = ln + 1
                /\ UNCHANGED <<pc, err, node_mapping, node_counter, Resistors,
                               Voltage_sources, Current_sources, resistor_names,
                               voltage_source_names, current_source_names>>
           ELSE IF IsMarker(line, DotEnd)
           THEN /\ Junk' = TRUE
                /\ ln' = ln + 1
                /\ UNCHANGED <<pc, err, node_mapping, node_counter, Resistors,
                               Voltage_sources, Current_sources, resistor_names,
                               voltage_source_names, current_source_names>>
           ELSE IF Junk \/ Len(line) = 0
           THEN /\ ln' = ln + 1
                /\ UNCHANGED <<pc, err, parserVars>>
           ELSE LET st == ElementLine(line)
                IN  /\ err' = st.err
                    /\ pc' = "parse"
                    /\ ln' = IF st.err = NoErr THEN ln + 1 ELSE ln
                    /\ node_mapping' = st.mapping
                    /\ node_counter' = st.counter
                    /\ Resistors' = st.R
                    /\ Voltage_sources' = st.V
                    /\ Current_sources' = st.I
                    /\ resistor_names' = st.rn
                    /\ voltage_source_names' = st.vn
                    /\ current_source_names' = st.cn
                    /\ UNCHANGED Junk
    /\ UNCHANGED <<lines, builderVars, resultVars>>

\* parsing returns; matrix_formation sets up the zero matrices
MatrixInit ==
    /\ pc = "parse"
    /\ err = NoErr
    /\ ln > Len(lines)
    /\ node_count' = node_counter
    /\ Matrix' = Zeros2((node_counter - 1) + Len(Voltage_sources))
    /\ Matrix_right' = Zeros1((node_counter - 1) + Len(Voltage_sources))
    /\ k' = 1
    /\ pc' = LoopFrom("resistors")
    /\ UNCHANGED <<lines, err, ln, parserVars, resultVars>>

\* one iteration of the loop over the resistors
StampResistor ==
    /\ pc = "resistors"
    /\ err = NoErr
    /\ LET r == ResistorStamp(Matrix, Resistors[k])
       IN  /\ err' = r.err
           /\ Matrix' = r.M
           /\ pc' = IF r.err # NoErr \/ k < Len(Resistors) THEN "resistors"
                    ELSE LoopFrom("currents")
           /\ k' = IF r.err # NoErr THEN k
                   ELSE IF k < Len(Resistors) THEN k + 1 ELSE 1
    /\ UNCHANGED <<lines, ln, parserVars, node_count, Matrix_right, resultVars>>

\* one iteration of the loop over the current sources
StampCurrent ==
    /\ pc = "currents"
    /\ err = NoErr
    /\ LET r == CurrentStamp(Matrix_right, Current_sources[k])
       IN  /\ err' = r.err
           /\ Matrix_right' = r.b
           /\ pc' = IF r.err # NoErr \/ k < Len(Current_sources) THEN "currents"
                    ELSE LoopFrom("voltages")
           /\ k' = IF r.err # NoErr THEN k
                   ELSE IF k < Len(Current_sources) THEN k + 1 ELSE 1
    /\ UNCHANGED <<lines, ln, parserVars, node_count, Matrix, resultVars>>

\* one iteration of the loop over the voltage sources
StampVoltage ==
    /\ pc = "voltages"
    /\ err = NoErr
    /\ LET r == VoltageStamp(Matrix, Matrix_right, node_count - 1, k - 1,
                             Voltage_sources[k])
       IN  /\ err' = r.err
           /\ Matrix' = r.M
           /\ Matrix_right' = r.b
           /\ pc' = IF r.err # NoErr \/ k < Len(Voltage_sources) THEN "voltages"
                    ELSE "solve"
           /\ k' = IF r.err # NoErr THEN k
                   ELSE IF k < Len(Voltage_sources) THEN k + 1 ELSE 1
    /\ UNCHANGED <<lines, ln, parserVars, node_count, resultVars>>

\* np.linalg.solve, a singular matrix reported as "no solution"
Solve ==
    /\ pc = "solve"
    /\ err = NoErr
    /\ LET s == LinSolve(Matrix, Matrix_right)
       IN  /\ err' = IF s.singular THEN NoSolution ELSE NoErr
           /\ solution' = s.x
           /\ pc' = IF s.singular THEN "solve" ELSE "map"
    /\ UNCHANGED <<lines, ln, parserVars, builderVars, voltages, currents>>

\* the voltage and the current dictionaries evalSpice returns
MapResults ==
    /\ pc = "map"
    /\ voltages' = NodeVoltages(node_mapping, solution)
    /\ currents' = SourceCurrents(Voltage_sources, node_count, solution)
    /\ pc' = "done"
    /\ UNCHANGED <<lines, err, ln, parserVars, builderVars, solution>>

Next ==
    \/ CheckMarkers
    \/ ParseLine
    \/ MatrixInit
    \/ StampResistor
    \/ StampCurrent
    \/ StampVoltage
    \/ Solve
    \/ MapResults

Spec == Init /\ [][Next]_vars

SpecEval == InitEval /\ [][Next]_vars
(***************************************************************************)
(* What the properties below speak of, read off the file alone.            *)
(***************************************************************************)
Ten      == <<10, 1>>
MinusTwo == <<-2, 1>>

\* the evaluation has ended: an exception was raised, or it returned
Ended == err # NoErr \/ pc = "done"

CircuitAt(i) == lines[i] = <<DotCircuit>>
EndAt(i)     == lines[i] = <<DotEnd>>

MissingMarker ==
    \/ ~\E i \in 1..Len(lines) : CircuitAt(i)
    \/ ~\E i \in 1..Len(lines) : EndAt(i)

\* line i lies after the first '.circuit' line and before the first '.end' line
InFirstBlock(i) ==
    /\ \E c \in 1..(i - 1) : CircuitAt(c)
    /\ ~\E e \in 1..i : EndAt(e)
    /\ ~CircuitAt(i)

\* line i lies after a '.circuit' line with no '.end' line in between
InSomeBlock(i) ==
    /\ ~CircuitAt(i) /\ ~EndAt(i)
    /\ \E c \in 1..(i - 1) :
          CircuitAt(c) /\ \A e \in (c + 1)..(i - 1) : ~EndAt(e)

\* an element line: a non-empty line between a '.circuit' line and the next
\* '.end' line
ElementLineAt(i) == InSomeBlock(i) /\ lines[i] # <<>>

\* the kind of a non-empty line: the first character of its first token, in
\* either case
KindOf(line) ==
    LET c == line[1][1]
    IN  IF c \in {"R", "r"} THEN "R"
        ELSE IF c \in {"V", "v"} THEN "V"
        ELSE IF c \in {"I", "i"} THEN "I"
        ELSE "other"

Required(kind) == IF kind = "R" THEN 4 ELSE 5

ShortElement(line) ==
    /\ line # <<>>
    /\ KindOf(line) \in {"R", "V", "I"}
    /\ Len(line) < Required(KindOf(line))

InsufficientOf(kind) ==
    IF kind = "R" THEN InsufficientR
    ELSE IF kind = "V" THEN InsufficientV
    ELSE InsufficientI

DuplicateOf(kind) ==
    IF kind = "R" THEN DuplicateR
    ELSE IF kind = "V" THEN DuplicateV
    ELSE DuplicateI

\* the element loop has handled line i: it went past it, or raised on it
Handled(i) ==
    /\ pc # "scan"
    /\ \/ pc # "parse"
       \/ ln > i
       \/ ln = i /\ err # NoErr

\* the parser is stopped on line i by an exception
RaisedOn(i) == pc = "parse" /\ err # NoErr /\ ln = i

\* line j < i is an accepted element of the kind and the name of line i
SameKindAndName(j, i) ==
    /\ j < i /\ InFirstBlock(j) /\ lines[j] # <<>>
    /\ KindOf(lines[j]) = KindOf(lines[i])
    /\ lines[j][1] = lines[i][1]

\* the value text denotes exactly zero
DenotesZero(value) == IsFloatText(value) /\ DecimalValue(value) = 0

\* the resistor loop has handled the j-th resistor
Stamped(j) ==
    \/ pc \in {"currents", "voltages", "solve", "map", "done"}
    \/ pc = "resistors" /\ (k > j \/ (k = j /\ err # NoErr))

\* the parser's state is the one it started with
ParserUntouched ==
    /\ ln = 1 /\ Junk
    /\ node_mapping = (GND :> 0) /\ node_counter = 1
    /\ Resistors = <<>> /\ Voltage_sources = <<>> /\ Current_sources = <<>>
    /\ resistor_names = {} /\ voltage_source_names = {}
    /\ current_source_names = {}

\* the node names on the element lines of the file
NodeNamesOfFile ==
    UNION { {lines[i][2], lines[i][3]} :
              i \in {j \in 1..Len(lines) : ElementLineAt(j) /\ Len(lines[j]) >= 3} }

Range(seq) == {seq[i] : i \in 1..Len(seq)}

\* the node tokens of the element lines 1..n the parser has resolved, in order
RECURSIVE NodeTokensUpTo(_)
NodeTokensUpTo(n) ==
    IF n = 0 THEN <<>>
    ELSE NodeTokensUpTo(n - 1) \o
         (IF ElementLineAt(n) /\ Len(lines[n]) >= 3 /\ Handled(n)
          THEN <<lines[n][2], lines[n][3]>>
          ELSE <<>>)

\* the non-ground names of a sequence, each once, in the order they first occur
RECURSIVE FirstSeen(_)
FirstSeen(seq) ==
    IF seq = <<>> THEN <<>>
    ELSE LET front == FirstSeen(SubSeq(seq, 1, Len(seq) - 1))
             x     == seq[Len(seq)]
         IN  IF x = GND \/ x \in Range(front) THEN front ELSE Append(front, x)

\* the names of the voltage source lines 1..n of the file, in declaration order
RECURSIVE DeclaredSources(_)
DeclaredSources(n) ==
    IF n = 0 THEN <<>>
    ELSE DeclaredSources(n - 1) \o
         (IF ElementLineAt(n) /\ KindOf(lines[n]) = "V"
          THEN <<lines[n][1]>>
          ELSE <<>>)

\* the rows (and columns) of the non-ground terminals of the resistor stamped next
TerminalRows ==
    {n - 1 : n \in {IntOf(Resistors[k].n1), IntOf(Resistors[k].n2)} \ {0}}

\* the netlist '.circuit', 'V1 1 0 10', 'R1 1 0 5', '.end'
Netlist1 ==
    << <<DotCircuit>>, <<tV1, t1, t0, t10>>, <<tR1, t1, t0, t5>>, <<DotEnd>> >>

\* the netlist '.circuit', 'V1 1 GND dc 10', 'R1 1 GND 5', '.end'
Netlist1Grounded ==
    << <<DotCircuit>>, <<tV1, t1, GND, tdc, t10>>, <<tR1, t1, GND, t5>>,
       <<DotEnd>> >>

ReturnsTenAndMinusTwo ==
    /\ pc = "done"
    /\ t1 \in DOMAIN voltages /\ voltages[t1] = Ten
    /\ tV1 \in DOMAIN currents /\ currents[tV1] = MinusTwo

(***************************************************************************)
(* The properties.                                                         *)
(***************************************************************************)

\* C1, as stated: evaluating '.circuit', 'V1 1 0 10', 'R1 1 0 5', '.end'
\* succeeds and returns 10 for node '1' and -2.0 for source 'V1'.
C1_AsStated == (lines = Netlist1 /\ Ended) => ReturnsTenAndMinusTwo

\* C1, amended: evaluating that netlist ends in the parser, on its second
\* line, with the voltage source's insufficient-data error (the line has 4
\* tokens, a source line needs 5); with the two element lines written
\* 'V1 1 GND dc 10' and 'R1 1 GND 5' the evaluation succeeds and returns 10
\* for node '1' and -2.0 for source 'V1'.
C1_Amended ==
    /\ lines = Netlist1 =>
          /\ pc \in {"scan", "parse"}
          /\ Ended => (pc = "parse" /\ ln = 2 /\ err = InsufficientV)
    /\ (lines = Netlist1Grounded /\ Ended) => ReturnsTenAndMinusTwo

C1_Witness == lines = Netlist1Grounded /\ ReturnsTenAndMinusTwo

\* C2: every non-empty line inside the circuit block whose first token
\* starts with R, V or I (any case) and that has fewer tokens than its kind
\* requires (4 for a resistor, 5 for a source) makes parsing fail with the
\* insufficient-data error of that kind, and with no other error.
C2_ShortLineInsufficient ==
    \A i \in 1..Len(lines) :
        (InFirstBlock(i) /\ ShortElement(lines[i]) /\ Handled(i)) =>
            (RaisedOn(i) /\ err = InsufficientOf(KindOf(lines[i])))

\* C3: in the equation builder a resistor whose value text denotes exactly
\* zero fails with a division-by-zero error, an outcome distinct from the
\* malformed-value error of a resistor whose value text is not a number.
C3_ZeroIsDivisionError ==
    \A j \in 1..Len(Resistors) :
        (DenotesZero(Resistors[j].value) /\ Stamped(j)) =>
            /\ pc = "resistors" /\ k = j
            /\ err.type = "ZeroDivisionError"
            /\ err # MalformedValue

\* C4: if no line is '.circuit', or no line is '.end', parsing fails with
\* the malformed-file error before any element line is processed, so that
\* no element-level error is reported instead.
C4_MissingMarkerFails ==
    MissingMarker =>
        /\ pc = "scan"
        /\ ParserUntouched
        /\ err \in {NoErr, MalformedFile}
        /\ Ended => err = MalformedFile

\* a file with '.circuit' and no '.end' whose second line is an element the
\* parser would reject, ended by the malformed-file error
C4_Witness ==
    /\ MissingMarker /\ err = MalformedFile
    /\ Len(lines) >= 2 /\ CircuitAt(1)
    /\ lines[2] # <<>> /\ KindOf(lines[2]) = "other"

\* C5: within one parse an element line carrying a name that an earlier
\* accepted element of the same kind uses always fails with the
\* duplicate-name error of that kind, and a duplicate-name error is raised
\* only then: a name used only by elements of other kinds never causes it.
C5_DuplicateName ==
    \A i \in 1..Len(lines) :
        (InFirstBlock(i) /\ lines[i] # <<>> /\ Handled(i)) =>
            /\ (KindOf(lines[i]) \in {"R", "V", "I"}
                  /\ \E j \in 1..Len(lines) : SameKindAndName(j, i))
                 => (RaisedOn(i) /\ err = DuplicateOf(KindOf(lines[i])))
            /\ (RaisedOn(i) /\ err \in {DuplicateR, DuplicateV, DuplicateI})
                 => \E j \in 1..Len(lines) : SameKindAndName(j, i)

\* C6: only the lines after the first '.circuit' line and before the first
\* '.end' line are treated as circuit elements: the parser's step over any
\* other line adds no component, assigns no node index and raises no error.
C6_OutsideFirstBlockIgnored ==
    [][(pc = "parse" /\ err = NoErr /\ ln <= Len(lines) /\ ~InFirstBlock(ln)) =>
          /\ UNCHANGED <<node_mapping, node_counter, Resistors,
                         Voltage_sources, Current_sources>>
          /\ err' = NoErr]_vars

C8_NodeMapInv ==
    LET order == FirstSeen(NodeTokensUpTo(Len(lines)))
    IN  /\ DOMAIN node_mapping = {GND} \cup Range(order)
        /\ node_mapping[GND] = 0
        /\ \A j \in 1..Len(order) : node_mapping[order[j]] = j
        /\ {node_mapping[n] : n \in DOMAIN node_mapping} = 0..(node_counter - 1)
        /\ \A m, n \in DOMAIN node_mapping :
              node_mapping[m] = node_mapping[n] => m = n
        /\ node_counter = 1 + Len(order)
        /\ pc \notin {"scan", "parse"} => node_count = 1 + Len(order)

\* the step half of C8, see C8_NodeMap
C8_AppendOnly ==
    \A n \in DOMAIN node_mapping :
        n \in DOMAIN node_mapping' /\ node_mapping'[n] = node_mapping[n]

\* C8: after every processed element line the node map is a bijection
\* between {'GND'} plus the node names seen so far and 0..node_counter-1,
\* with 'GND' at 0 and the other names numbered 1, 2, ... in first-encounter
\* order, and no step changes an index already assigned; the node count
\* returned is 1 plus the number of distinct non-ground names encountered.
C8_NodeMap == []C8_NodeMapInv /\ [][C8_AppendOnly]_vars

\* parsing has returned: two element lines resolved, a name met again, two
\* non-ground names numbered
C8_Witness ==
    /\ pc = "resistors"
    /\ node_count = 3
    /\ Len(NodeTokensUpTo(Len(lines))) >= 4

\* C9: on every successful evaluation the equation system has dimension
\* (node count - 1) + (number of voltage sources), and the current map has
\* exactly one entry per voltage source, that of the i-th declared source
\* (from 0) being solution component (node count - 1) + i, the unknown of
\* the extra row that source's stamp wrote its value to; no source is
\* omitted by the range guard.
C9_CurrentMap ==
    pc = "done" =>
        LET nV  == Len(DeclaredSources(Len(lines)))
            dim == (Cardinality(DOMAIN node_mapping) - 1) + nV
        IN  /\ node_count = Cardinality(DOMAIN node_mapping)
            /\ DOMAIN Matrix = 0..(dim - 1)
            /\ \A i \in DOMAIN Matrix : DOMAIN Matrix[i] = 0..(dim - 1)
            /\ DOMAIN Matrix_right = 0..(dim - 1)
            /\ DOMAIN solution = 0..(dim - 1)
            /\ Len(Voltage_sources) = nV
            /\ DOMAIN currents = Range(DeclaredSources(Len(lines)))
            /\ Cardinality(DOMAIN currents) = nV
            /\ \A i \in 0..(nV - 1) :
                  /\ Voltage_sources[i + 1].name = DeclaredSources(Len(lines))[i + 1]
                  /\ currents[DeclaredSources(Len(lines))[i + 1]]
                        = solution[(node_count - 1) + i][0]
                  /\ Matrix_right[(node_count - 1) + i][0]
                        = Float(Voltage_sources[i + 1].value)

\* a successful evaluation with two voltage sources
C9_Witness ==
    /\ pc = "done"
    /\ Len(Voltage_sources) = 2
    /\ Cardinality(DOMAIN currents) = 2

\* C10: each resistor stamp changes only coefficient entries whose row and
\* column are both (index - 1) of a non-ground terminal of that resistor:
\* a resistor with both terminals on GND changes no entry, and no resistor
\* changes an entry in a voltage source's row or column.
C10_ResistorFrame ==
    [][(pc = "resistors" /\ err = NoErr) =>
          \A i, j \in DOMAIN Matrix :
              Matrix'[i][j] # Matrix[i][j] =>
                  (i \in TerminalRows /\ j \in TerminalRows)]_vars
====
